---- MODULE Spec2Model ----
(***************************************************************************)
(* The bank-support service: the POST /support handler of app/main.py with *)
(* its provider failover chain (primary LLM agent, fallback LLM agent,     *)
(* keyword mock), the single-agent handlers of modal_app.py and            *)
(* bank_support_example.py, and the keyword evaluator                      *)
(* mock_support_response.  Text is modelled as sequences of one-character  *)
(* strings so that lower() and the substring test `word in question_lower` *)
(* are computed character by character.                                    *)
(***************************************************************************)
EXTENDS Integers, Sequences, FiniteSets, TLC

VARIABLES
    variant,          \* which module serves: "main", "modal" or "example"
    primary_agent,    \* app/main.py: primary_agent is not None
    fallback_agent,   \* app/main.py: fallback_agent is not None
    logfire_enabled,  \* app/main.py: logfire_enabled
    pc,               \* position of the request in the handler
    body,             \* the JSON body of the request being served
    q,                \* the parsed Query (a sequence of zero or one record)
    result,           \* the local `result.output` of the handler (zero or one)
    response,         \* the HTTP response: status and zero or one SupportOutput
    trace,            \* evaluator invocations of this request, in order
    telemetry,        \* logfire events emitted by the handler for this request
    outcomes,         \* what each agent.run call of this request did, in order
    health,           \* the last response of GET /health (zero or one)
    parked,           \* the locals of a second request, suspended at an await
    db_calls,         \* the calls of DatabaseConn made for this request, in order
    validate,         \* validate_api_integration.py: the run of the script
    mapper            \* request_attributes_mapper: its arguments and its result

vars == <<variant, primary_agent, fallback_agent, logfire_enabled,
          pc, body, q, result, response, trace, telemetry, outcomes, health,
          parked, db_calls, validate, mapper>>

\* The two scripts beside the service: they share nothing with it.
scripts == <<validate, mapper>>

config == <<variant, primary_agent, fallback_agent, logfire_enabled>>

-----------------------------------------------------------------------------
(* Bounds of the model.                                                    *)

\* Questions of the keyword-evaluator specification are made of at most
\* MaxFrags fragments of Fragments.
MaxFrags == 2

\* Questions of the full handler specification are made of at most
\* HandlerFrags fragments.
HandlerFrags == 1

-----------------------------------------------------------------------------
(* Text.                                                                   *)

UpperLetters ==
    <<"A","B","C","D","E","F","G","H","I","J","K","L","M",
      "N","O","P","Q","R","S","T","U","V","W","X","Y","Z">>

LowerLetters ==
    <<"a","b","c","d","e","f","g","h","i","j","k","l","m",
      "n","o","p","q","r","s","t","u","v","w","x","y","z">>

\* str.lower() of one character: an upper-case letter becomes its lower-case
\* letter, every other character is unchanged.
lower_char(c) ==
    IF \E i \in 1..Len(UpperLetters) : UpperLetters[i] = c
    THEN LowerLetters[CHOOSE i \in 1..Len(UpperLetters) : UpperLetters[i] = c]
    ELSE c

\* The question compared as typed, without lower().
lower_identity(s) == s

\* question.lower()
lower(s) == [i \in 1..Len(s) |-> lower_char(s[i])]

\* `word in text`: word occurs in text as a contiguous substring.
contains(text, word) ==
    \E i \in 1..(Len(text) - Len(word) + 1) :
        SubSeq(text, i, i + Len(word) - 1) = word

\* any(word in text for word in words)
any_word_in(text, words) ==
    \E t \in {text} : \E k \in 1..Len(words) : contains(t, words[k])

-----------------------------------------------------------------------------
(* The keyword evaluator, app/main.py mock_support_response.               *)

\* The theft list with "missing" forgotten.
TheftWordsNoMissing ==
    << <<"l","o","s","t">>, <<"s","t","o","l","e","n">> >>

\* The keyword lists of the three rules.
TheftWords ==
    << <<"l","o","s","t">>, <<"s","t","o","l","e","n">>,
       <<"m","i","s","s","i","n","g">> >>

FraudWords ==
    << <<"f","r","a","u","d">>, <<"s","u","s","p","i","c","i","o","u","s">>,
       <<"u","n","a","u","t","h","o","r","i","z","e","d">> >>

BalanceWords ==
    << <<"b","a","l","a","n","c","e">>, <<"a","c","c","o","u","n","t">> >>

\* f"Hi {customer_name}..." : the text before the name.
AdviceHead == <<"H","i"," ">>

TheftAdviceTail ==
    <<","," ","I"," ","u","n","d","e","r","s","t","a","n","d"," ","y","o","u","'","v","e"," ","r","e",
      "p","o","r","t","e","d"," ","a"," ","l","o","s","t"," ","o","r"," ","s","t","o","l","e","n"," ",
      "c","a","r","d","."," ","I","'","v","e"," ","i","m","m","e","d","i","a","t","e","l","y"," ","b",
      "l","o","c","k","e","d"," ","y","o","u","r"," ","c","a","r","d"," ","f","o","r"," ","s","e","c",
      "u","r","i","t","y","."," ","W","e","'","l","l"," ","e","x","p","e","d","i","t","e"," ","a"," ",
      "r","e","p","l","a","c","e","m","e","n","t"," ","c","a","r","d"," ","t","o"," ","y","o","u"," ",
      "w","i","t","h","i","n"," ","2","-","3"," ","b","u","s","i","n","e","s","s"," ","d","a","y","s",
      ".">>

FraudAdviceTail ==
    <<","," ","I"," ","t","a","k","e"," ","f","r","a","u","d"," ","c","o","n","c","e","r","n","s"," ",
      "v","e","r","y"," ","s","e","r","i","o","u","s","l","y","."," ","I","'","v","e"," ","b","l","o",
      "c","k","e","d"," ","y","o","u","r"," ","c","a","r","d"," ","a","s"," ","a"," ","p","r","e","c",
      "a","u","t","i","o","n"," ","a","n","d"," ","o","u","r"," ","f","r","a","u","d"," ","t","e","a",
      "m"," ","w","i","l","l"," ","i","n","v","e","s","t","i","g","a","t","e","."," ","Y","o","u","'",
      "l","l"," ","r","e","c","e","i","v","e"," ","a"," ","c","a","l","l"," ","w","i","t","h","i","n",
      " ","2","4"," ","h","o","u","r","s",".">>

BalanceAdviceTail ==
    <<","," ","I"," ","c","a","n"," ","h","e","l","p"," ","y","o","u"," ","w","i","t","h"," ","y","o",
      "u","r"," ","a","c","c","o","u","n","t"," ","b","a","l","a","n","c","e","."," ","Y","o","u","r",
      " ","c","u","r","r","e","n","t"," ","b","a","l","a","n","c","e"," ","i","s"," ","$","1","2","3",
      ".","4","5"," ","(","i","n","c","l","u","d","i","n","g"," ","p","e","n","d","i","n","g"," ","t",
      "r","a","n","s","a","c","t","i","o","n","s",")",".">>

DefaultAdviceTail ==
    <<","," ","t","h","a","n","k"," ","y","o","u"," ","f","o","r"," ","c","o","n","t","a","c","t","i",
      "n","g"," ","u","s","."," ","I","'","m"," ","h","e","r","e"," ","t","o"," ","h","e","l","p"," ",
      "w","i","t","h"," ","y","o","u","r"," ","b","a","n","k","i","n","g"," ","n","e","e","d","s",".",
      " ","C","o","u","l","d"," ","y","o","u"," ","p","l","e","a","s","e"," ","p","r","o","v","i","d",
      "e"," ","m","o","r","e"," ","d","e","t","a","i","l","s"," ","a","b","o","u","t"," ","y","o","u",
      "r"," ","i","n","q","u","i","r","y","?">>

\* SupportOutput(...): the fields of the output schema.
SupportOutput(advice, block, risk, explanation, category, signals) ==
    [support_advice   |-> advice,
     block_card       |-> block,
     risk             |-> risk,
     risk_explanation |-> explanation,
     risk_category    |-> category,
     risk_signals     |-> signals]

\* The four branches of mock_support_response.  risk_signals starts empty,
\* risk starts at 1 and block_card at False; each branch overrides them.
\* The theft rule listing each of its three keywords as a signal.
theft_branch_all_keywords(customer_name) ==
    SupportOutput(AdviceHead \o customer_name \o TheftAdviceTail, TRUE, 9,
        "Card reported as lost or stolen requires immediate blocking.",
        "critical", <<>> \o <<"lost", "stolen", "missing">>)

theft_branch(customer_name) ==
    SupportOutput(AdviceHead \o customer_name \o TheftAdviceTail, TRUE, 9,
        "Card reported as lost or stolen requires immediate blocking.",
        "critical", <<>> \o <<"lost", "stolen">>)

\* The fraud rule labelled with the category of the theft rule.
fraud_branch_critical(customer_name) ==
    SupportOutput(AdviceHead \o customer_name \o FraudAdviceTail, TRUE, 8,
        "Potential fraud requires immediate card blocking and investigation.",
        "critical", <<>> \o <<"fraud", "suspicious">>)

fraud_branch(customer_name) ==
    SupportOutput(AdviceHead \o customer_name \o FraudAdviceTail, TRUE, 8,
        "Potential fraud requires immediate card blocking and investigation.",
        "urgent", <<>> \o <<"fraud", "suspicious">>)

\* The balance rule answering with the generic advice.
balance_branch_no_figure(customer_name) ==
    SupportOutput(AdviceHead \o customer_name \o DefaultAdviceTail, FALSE, 1,
        "Standard account inquiry poses no security risk.",
        "routine", Append(<<>>, "balance inquiry"))

\* The balance rule blocking the card.
balance_branch_blocks(customer_name) ==
    SupportOutput(AdviceHead \o customer_name \o BalanceAdviceTail, TRUE, 1,
        "Standard account inquiry poses no security risk.",
        "routine", Append(<<>>, "balance inquiry"))

balance_branch(customer_name) ==
    SupportOutput(AdviceHead \o customer_name \o BalanceAdviceTail, FALSE, 1,
        "Standard account inquiry poses no security risk.",
        "routine", Append(<<>>, "balance inquiry"))

\* The default rule leaving risk at its initial value 1.
default_branch_risk_unset(customer_name) ==
    SupportOutput(AdviceHead \o customer_name \o DefaultAdviceTail, FALSE, 1,
        "General inquiry with no specific risk indicators.",
        "routine", <<>>)

\* The default rule scoring on a scale of 0 to 100.
default_branch_risk_out_of_range(customer_name) ==
    SupportOutput(AdviceHead \o customer_name \o DefaultAdviceTail, FALSE, 20,
        "General inquiry with no specific risk indicators.",
        "routine", <<>>)

default_branch(customer_name) ==
    SupportOutput(AdviceHead \o customer_name \o DefaultAdviceTail, FALSE, 2,
        "General inquiry with no specific risk indicators.",
        "routine", <<>>)

\* The rules tried in another order: fraud before theft.
mock_support_response_fraud_first(question, customer_name) ==
    LET question_lower == lower(question) IN
    IF any_word_in(question_lower, FraudWords) THEN fraud_branch(customer_name)
    ELSE IF any_word_in(question_lower, TheftWords) THEN theft_branch(customer_name)
    ELSE IF any_word_in(question_lower, BalanceWords) THEN balance_branch(customer_name)
    ELSE default_branch(customer_name)

mock_support_response(question, customer_name) ==
    LET question_lower == lower(question) IN
    IF any_word_in(question_lower, TheftWords) THEN theft_branch(customer_name)
    ELSE IF any_word_in(question_lower, FraudWords) THEN fraud_branch(customer_name)
    ELSE IF any_word_in(question_lower, BalanceWords) THEN balance_branch(customer_name)
    ELSE default_branch(customer_name)

-----------------------------------------------------------------------------
(* Inputs: request bodies and LLM outputs.                                 *)

Fragments ==
    << <<"l","o","s","t">>,
       <<"S","T","O","L","E","N">>,
       <<"M","i","s","s","i","n","g">>,
       <<"f","r","a","u","d">>,
       <<"S","u","s","p","i","c","i","o","u","s">>,
       <<"u","n","A","u","t","h","o","r","i","z","e","d">>,
       <<"B","a","l","a","n","c","e">>,
       <<"a","c","c","o","u","n","t">>,
       <<"s","t","o","l","e">>,
       <<"l","o","s">>,
       <<"t">>,
       <<"n">>,
       <<" ","m","y"," ","c","a","r","d">> >>

RECURSIVE Join(_)
Join(fs) == IF fs = <<>> THEN <<>> ELSE Fragments[Head(fs)] \o Join(Tail(fs))

\* Every text made of at most n of the fragments numbered in idx.
QuestionsOf(idx, n) ==
    { Join(fs) : fs \in UNION { [1..k -> idx] : k \in 0..n } }

\* Every text made of at most n fragments.
Questions(n) == QuestionsOf(1..Len(Fragments), n)

\* The fragments of the questions put to the full handler: a word of each
\* rule of the keyword evaluator and one that is in no rule ("lost",
\* "STOLEN", "fraud", "Balance", "stole").
HandlerFragments == {1, 2, 4, 7, 9}

Names == { <<>>, <<"B","o","b">> }

Field(tag, val) == [tag |-> tag, val |-> val]

\* A JSON body: each field is present with a value of the right type ("ok"),
\* absent ("missing") or present with a value of another type ("wrong_type").
Bodies(questions) ==
    [question        : {Field("ok", x) : x \in questions}
                         \cup {Field("missing", <<>>), Field("wrong_type", <<>>)},
     customer_name   : {Field("ok", x) : x \in Names}
                         \cup {Field("missing", <<>>), Field("wrong_type", <<>>)},
     customer_id     : {Field("ok", 456), Field("missing", 0), Field("wrong_type", 0)},
     include_pending : {Field("ok", FALSE), Field("missing", FALSE),
                        Field("wrong_type", FALSE)}]

\* What the model behind an agent may produce as its final structured answer:
\* `absent` names the fields it left out.
LLMRaw(advice, block, risk, explanation, category, signals, absent) ==
    [support_advice   |-> advice,
     block_card       |-> block,
     risk             |-> risk,
     risk_explanation |-> explanation,
     risk_category    |-> category,
     risk_signals     |-> signals,
     absent           |-> absent]

LLMOutputs ==
    { LLMRaw(<<"B","l","o","c","k","e","d",".">>, TRUE, 9, "Card stolen.",
             "critical", <<"stolen">>, {}),
      LLMRaw(<<"O","k",".">>, FALSE, 2, "Routine.", "critical", <<>>, {}),
      LLMRaw(<<>>, FALSE, 0, "", "other", <<>>, {"risk_signals"}),
      LLMRaw(<<"H","i",".">>, TRUE, 10, "Fraud.", "urgent", <<"fraud">>, {}),
      LLMRaw(<<"H","i",".">>, TRUE, 11, "Fraud.", "critical", <<"fraud">>, {}),
      LLMRaw(<<"H","i",".">>, FALSE, -1, "Routine.", "routine", <<>>, {}),
      LLMRaw(<<>>, FALSE, 1, "Routine.", "routine", <<>>, {"support_advice"}) }

-----------------------------------------------------------------------------
(* Schemas.                                                                *)

DefaultCustomerId == 123

\* A Query whose customer_name has a default.
query_valid_name_optional(b) ==
    /\ b.question.tag = "ok"
    /\ b.customer_name.tag \in {"ok", "missing"}
    /\ b.customer_id.tag \in {"ok", "missing"}
    /\ b.include_pending.tag \in {"ok", "missing"}

\* class Query(BaseModel) of app/main.py and modal_app.py: question and
\* customer_name are required, customer_id and include_pending have defaults.
query_valid(b) ==
    /\ b.question.tag = "ok"
    /\ b.customer_name.tag = "ok"
    /\ b.customer_id.tag \in {"ok", "missing"}
    /\ b.include_pending.tag \in {"ok", "missing"}

\* class Query(BaseModel) of bank_support_example.py has no include_pending
\* field; an extra key of the body is ignored.
query_valid_example(b) ==
    /\ b.question.tag = "ok"
    /\ b.customer_name.tag = "ok"
    /\ b.customer_id.tag \in {"ok", "missing"}

Query(b) ==
    [question        |-> b.question.val,
     customer_name   |-> b.customer_name.val,
     customer_id     |-> IF b.customer_id.tag = "ok" THEN b.customer_id.val
                         ELSE DefaultCustomerId,
     include_pending |-> IF b.include_pending.tag = "ok" THEN b.include_pending.val
                         ELSE TRUE]

\* The Query of bank_support_example.py: no include_pending.
Query_example(b) ==
    [question      |-> b.question.val,
     customer_name |-> b.customer_name.val,
     customer_id   |-> IF b.customer_id.tag = "ok" THEN b.customer_id.val
                       ELSE DefaultCustomerId]

\* class SupportOutput(BaseModel): every field but risk_signals is required
\* and risk is conint(ge=0, le=10); the texts and the category are plain str.
\* risk: conint(ge=0, le=10)
conint_0_10(n) == n >= 0 /\ n <= 10

\* The schema with the upper bound of risk left out.
schema_valid_no_upper_bound(raw) ==
    /\ raw.absent \subseteq {"risk_signals"}
    /\ raw.risk >= 0

\* The schema checking the range of risk and not the presence of the fields.
schema_valid_ignores_missing(raw) ==
    /\ raw.risk >= 0
    /\ raw.risk <= 10

schema_valid(raw) ==
    /\ raw.absent \subseteq {"risk_signals"}
    /\ raw.risk >= 0
    /\ raw.risk <= 10

validated(raw) ==
    SupportOutput(raw.support_advice, raw.block_card, raw.risk, raw.risk_explanation,
        raw.risk_category,
        IF "risk_signals" \in raw.absent THEN <<>> ELSE raw.risk_signals)

\* Agent(..., output_type=SupportOutput).run(): the call returns the validated
\* output, or raises: the request timed out, the transport failed, or the
\* model's answer did not pass the output schema.
\* `raw` keeps what the model produced, when it produced anything.
AgentRunOutcomes ==
    { [ok |-> schema_valid(raw),
       output |-> IF schema_valid(raw) THEN <<validated(raw)>> ELSE <<>>,
       error |-> IF schema_valid(raw) THEN "none" ELSE "malformed_output",
       raw |-> <<raw>>]
        : raw \in LLMOutputs }
    \cup
    { [ok |-> FALSE, output |-> <<>>, error |-> e, raw |-> <<>>]
        : e \in {"timeout", "transport_error"} }

\* An except clause for provider errors that lets a timeout through.
except_no_timeout(e) == e \in {"transport_error", "malformed_output"}

\* An except clause that names the timeout alone.
except_only_timeout(e) == e = "timeout"

\* `except Exception as e` catches every one of these.
except_Exception(e) == e \in {"timeout", "transport_error", "malformed_output"}

-----------------------------------------------------------------------------
(* State.                                                                  *)

NoResponse == [status |-> 0, output |-> <<>>]

Event(ev, who) == [ev |-> ev, who |-> who]

\* logfire.<level>(...) is a no-op for the response; it is recorded only when
\* logfire_enabled.
emit(log, entry) == IF logfire_enabled THEN Append(log, entry) ELSE log

has_ai_agents == primary_agent \/ fallback_agent

InitRequest ==
    /\ pc = "idle"
    /\ body = <<>>
    /\ q = <<>>
    /\ result = <<>>
    /\ response = NoResponse
    /\ trace = <<>>
    /\ telemetry = <<>>
    /\ outcomes = <<>>
    /\ health = <<>>
    /\ db_calls = <<>>

\* Module load: the environment decides which agents exist and whether
\* logfire is configured.  modal_app.py and bank_support_example.py build one
\* support_agent and have neither primary_agent nor fallback_agent.
Init ==
    /\ variant \in {"main", "modal", "example"}
    /\ primary_agent \in BOOLEAN
    /\ fallback_agent \in BOOLEAN
    /\ logfire_enabled \in BOOLEAN
    /\ variant # "main" => ~primary_agent /\ ~fallback_agent /\ ~logfire_enabled
    /\ InitRequest
    /\ validate = <<>>
    /\ mapper = <<>>
    /\ parked = <<>>

\* The keyword-evaluator configuration: app/main.py with no API key set.
InitMock ==
    /\ variant = "main"
    /\ primary_agent = FALSE
    /\ fallback_agent = FALSE
    /\ logfire_enabled \in BOOLEAN
    /\ InitRequest
    /\ validate = <<>>
    /\ mapper = <<>>
    /\ parked = <<>>

-----------------------------------------------------------------------------
(* POST /support.                                                          *)

\* FastAPI parses the body into Query before the handler runs; a body that
\* does not validate is answered 422 without calling the handler.
accept(b) ==
    /\ body' = <<b>>
    /\ UNCHANGED <<result, trace, telemetry, outcomes>>
    /\ IF (IF variant = "example" THEN query_valid_example(b) ELSE query_valid(b))
       THEN /\ q' = <<IF variant = "example" THEN Query_example(b) ELSE Query(b)>>
            /\ response' = NoResponse
            /\ pc' = IF variant = "main" THEN "TryPrimary" ELSE "TryAgent"
       ELSE /\ q' = <<>>
            /\ response' = [status |-> 422, output |-> <<>>]
            /\ pc' = "Done"
    /\ UNCHANGED <<config, scripts, parked, db_calls, health>>

Receive ==
    /\ pc = "idle"
    /\ \E b \in Bodies(QuestionsOf(HandlerFragments, HandlerFrags)) : accept(b)

ReceiveMock ==
    /\ pc = "idle"
    /\ \E b \in Bodies(Questions(MaxFrags)) : accept(b)

\* The response has been sent: the locals of the call are gone and the
\* service waits for the next request.
Respond ==
    /\ pc = "Done"
    /\ pc' = "idle"
    /\ body' = <<>>
    /\ q' = <<>>
    /\ result' = <<>>
    /\ response' = NoResponse
    /\ trace' = <<>>
    /\ telemetry' = <<>>
    /\ outcomes' = <<>>
    /\ db_calls' = <<>>
    /\ UNCHANGED <<config, scripts, parked, health>>

\* `return result.output`
return_output(out, who, note) ==
    /\ result' = <<out>>
    /\ response' = [status |-> 200, output |-> <<out>>]
    /\ trace' = Append(trace, Event("ok", who))
    /\ telemetry' = emit(telemetry, note)
    /\ pc' = "Done"

\* An exception that leaves the handler: the server answers 500.
propagate(who) ==
    /\ response' = [status |-> 500, output |-> <<>>]
    /\ trace' = Append(trace, Event("fail", who))
    /\ pc' = "Done"
    /\ UNCHANGED <<result, telemetry>>

\* app/main.py support(): `if primary_agent:` and the call of primary_agent.run.
TryPrimary ==
    /\ pc = "TryPrimary"
    /\ IF primary_agent
       THEN /\ pc' = "PrimaryRun"
            /\ trace' = Append(trace, Event("start", "primary"))
            /\ telemetry' = emit(telemetry, "span primary_llm_attempt")
       ELSE /\ pc' = "TrySecondary"
            /\ UNCHANGED <<trace, telemetry>>
    /\ UNCHANGED <<config, scripts, parked, db_calls, health, outcomes, body, q, result, response>>

\* The success branch without its `return`: the handler goes on to the next
\* evaluator.
PrimaryRunReturns_falls_through ==
    /\ pc = "PrimaryRun"
    /\ \E o \in AgentRunOutcomes :
        /\ o.ok
        /\ outcomes' = Append(outcomes, o)
        /\ result' = <<o.output[1]>>
        /\ trace' = Append(trace, Event("ok", "primary"))
        /\ telemetry' = emit(telemetry, "info Primary LLM (OpenAI) succeeded")
        /\ pc' = "TrySecondary"
    /\ UNCHANGED <<config, scripts, parked, db_calls, health, body, q, response>>

\* The success log line raising inside the try block when logfire is
\* configured: the except clause takes the success for a failure.
PrimaryRunReturns_log_raises ==
    /\ pc = "PrimaryRun"
    /\ \E o \in AgentRunOutcomes :
        /\ o.ok
        /\ outcomes' = Append(outcomes, o)
        /\ IF logfire_enabled
           THEN /\ pc' = "TrySecondary"
                /\ trace' = Append(trace, Event("fail", "primary"))
                /\ telemetry' = emit(telemetry, "error Primary LLM failed")
                /\ UNCHANGED <<result, response>>
           ELSE return_output(o.output[1], "primary", "info Primary LLM (OpenAI) succeeded")
    /\ UNCHANGED <<config, scripts, parked, db_calls, health, body, q>>

\* primary_agent.run returned: the handler returns result.output.
PrimaryRunReturns ==
    /\ pc = "PrimaryRun"
    /\ \E o \in AgentRunOutcomes :
        /\ o.ok
        /\ outcomes' = Append(outcomes, o)
        /\ return_output(o.output[1], "primary", "info Primary LLM (OpenAI) succeeded")
    /\ UNCHANGED <<config, scripts, parked, db_calls, health, body, q>>

\* The except clause retrying the provider that has just failed.
PrimaryRunRaises_retries ==
    /\ pc = "PrimaryRun"
    /\ \E o \in AgentRunOutcomes :
        /\ ~o.ok
        /\ outcomes' = Append(outcomes, o)
        /\ pc' = "TryPrimary"
        /\ trace' = Append(trace, Event("fail", "primary"))
        /\ telemetry' = emit(telemetry, "error Primary LLM failed")
    /\ UNCHANGED <<config, scripts, parked, db_calls, health, body, q, result, response>>

\* primary_agent.run raised: the except clause logs and falls through.
PrimaryRunRaises ==
    /\ pc = "PrimaryRun"
    /\ \E o \in AgentRunOutcomes :
        /\ ~o.ok
        /\ outcomes' = Append(outcomes, o)
        /\ IF except_Exception(o.error)
           THEN /\ pc' = "TrySecondary"
                /\ trace' = Append(trace, Event("fail", "primary"))
                /\ telemetry' = emit(telemetry, "error Primary LLM failed")
                /\ UNCHANGED <<result, response>>
           ELSE propagate("primary")
    /\ UNCHANGED <<config, scripts, parked, db_calls, health, body, q>>

\* The secondary stage left out: straight on to the keyword evaluator.
TrySecondary_skipped ==
    /\ pc = "TrySecondary"
    /\ pc' = "UseFallback"
    /\ UNCHANGED <<config, scripts, parked, db_calls, health, outcomes, body, q, result, response, trace, telemetry>>

\* `if fallback_agent:` and the call of fallback_agent.run.
TrySecondary ==
    /\ pc = "TrySecondary"
    /\ IF fallback_agent
       THEN /\ pc' = "SecondaryRun"
            /\ trace' = Append(trace, Event("start", "fallback"))
            /\ telemetry' = emit(telemetry, "span fallback_llm_attempt")
       ELSE /\ pc' = "UseFallback"
            /\ UNCHANGED <<trace, telemetry>>
    /\ UNCHANGED <<config, scripts, parked, db_calls, health, outcomes, body, q, result, response>>

SecondaryRunReturns ==
    /\ pc = "SecondaryRun"
    /\ \E o \in AgentRunOutcomes :
        /\ o.ok
        /\ outcomes' = Append(outcomes, o)
        /\ return_output(o.output[1], "fallback", "info Fallback LLM (Anthropic) succeeded")
    /\ UNCHANGED <<config, scripts, parked, db_calls, health, body, q>>

\* The call of fallback_agent.run with no try/except around it.
SecondaryRunRaises_unguarded ==
    /\ pc = "SecondaryRun"
    /\ \E o \in AgentRunOutcomes :
        /\ ~o.ok
        /\ outcomes' = Append(outcomes, o)
        /\ propagate("fallback")
    /\ UNCHANGED <<config, scripts, parked, db_calls, health, body, q>>

\* fallback_agent.run raised: the except clause logs and falls through.
SecondaryRunRaises ==
    /\ pc = "SecondaryRun"
    /\ \E o \in AgentRunOutcomes :
        /\ ~o.ok
        /\ outcomes' = Append(outcomes, o)
        /\ IF except_Exception(o.error)
           THEN /\ pc' = "UseFallback"
                /\ trace' = Append(trace, Event("fail", "fallback"))
                /\ telemetry' = emit(telemetry, "error Fallback LLM failed")
                /\ UNCHANGED <<result, response>>
           ELSE propagate("fallback")
    /\ UNCHANGED <<config, scripts, parked, db_calls, health, body, q>>

\* The keyword evaluator called with its arguments in the wrong order.
UseFallback_swapped ==
    /\ pc = "UseFallback"
    /\ response' = [status |-> 200,
                    output |-> <<mock_support_response(q[1].customer_name, q[1].question)>>]
    /\ trace' = trace \o <<Event("start", "mock"), Event("ok", "mock")>>
    /\ telemetry' = emit(telemetry, "warn Both AI services unavailable, using mock agent")
    /\ pc' = "Done"
    /\ UNCHANGED <<config, scripts, parked, db_calls, health, outcomes, body, q, result>>

\* The keyword evaluator leaving the card unblocked for a request that
\* excludes pending transactions.
UseFallback_reads_include_pending ==
    /\ pc = "UseFallback"
    /\ LET answer == mock_support_response(q[1].question, q[1].customer_name)
           out == [answer EXCEPT !.block_card = answer.block_card /\ q[1].include_pending]
       IN
         IF conint_0_10(out.risk)
         THEN /\ response' = [status |-> 200, output |-> <<out>>]
              /\ trace' = trace \o <<Event("start", "mock"), Event("ok", "mock")>>
         ELSE /\ response' = [status |-> 500, output |-> <<>>]
              /\ trace' = trace \o <<Event("start", "mock"), Event("fail", "mock")>>
    /\ telemetry' = emit(telemetry, "warn Both AI services unavailable, using mock agent")
    /\ pc' = "Done"
    /\ UNCHANGED <<config, scripts, parked, db_calls, health, outcomes, body, q, result>>

\* `return mock_support_response(q.question, q.customer_name)`: the warning is
\* logged first; SupportOutput(...) at the end of the evaluator validates the
\* fields, and a ValidationError would leave the handler.
UseFallback ==
    /\ pc = "UseFallback"
    /\ LET out == mock_support_response(q[1].question, q[1].customer_name) IN
         IF conint_0_10(out.risk)
         THEN /\ response' = [status |-> 200, output |-> <<out>>]
              /\ trace' = trace \o <<Event("start", "mock"), Event("ok", "mock")>>
         ELSE /\ response' = [status |-> 500, output |-> <<>>]
              /\ trace' = trace \o <<Event("start", "mock"), Event("fail", "mock")>>
    /\ telemetry' = emit(telemetry, "warn Both AI services unavailable, using mock agent")
    /\ pc' = "Done"
    /\ UNCHANGED <<config, scripts, parked, db_calls, health, outcomes, body, q, result>>

\* modal_app.py and bank_support_example.py support(): one agent, run_sync,
\* no try/except around it.
TryAgent ==
    /\ pc = "TryAgent"
    /\ pc' = "AgentRun"
    /\ trace' = Append(trace, Event("start", "agent"))
    /\ UNCHANGED <<config, scripts, parked, db_calls, health, outcomes, body, q, result, response, telemetry>>

AgentRunReturns ==
    /\ pc = "AgentRun"
    /\ \E o \in AgentRunOutcomes :
        /\ o.ok
        /\ outcomes' = Append(outcomes, o)
        /\ result' = <<o.output[1]>>
        /\ response' = [status |-> 200, output |-> <<o.output[1]>>]
        /\ trace' = Append(trace, Event("ok", "agent"))
        /\ pc' = "Done"
    /\ UNCHANGED <<config, scripts, parked, db_calls, health, body, q, telemetry>>

AgentRunRaises ==
    /\ pc = "AgentRun"
    /\ \E o \in AgentRunOutcomes :
        /\ ~o.ok
        /\ outcomes' = Append(outcomes, o)
        /\ propagate("agent")
    /\ UNCHANGED <<config, scripts, parked, db_calls, health, body, q>>

\* GET /health of the three modules: a constant body, no evaluator involved.
\* It can be served at any time, also while a /support request is awaiting an
\* agent.
health_body ==
    IF variant = "main"
    THEN [status |-> "ok",
          ai_enabled |-> has_ai_agents,
          primary_llm |-> IF primary_agent THEN "OpenAI GPT-5" ELSE "None",
          fallback_llm |-> IF fallback_agent THEN "Anthropic Claude Sonnet 4" ELSE "None",
          logfire_enabled |-> logfire_enabled]
    ELSE IF variant = "modal"
    THEN [status |-> "ok", service |-> "bank-support-agent", environment |-> "modal"]
    ELSE [status |-> "ok"]

\* A health check that reports on the agents instead of answering "ok".
Health_degraded ==
    /\ health' = <<[status |-> IF has_ai_agents \/ variant # "main" THEN 200 ELSE 503,
                    body |-> [status |-> IF has_ai_agents \/ variant # "main"
                                         THEN "ok" ELSE "degraded"]]>>
    /\ UNCHANGED <<config, scripts, parked, db_calls, pc, body, q, result, response, trace, telemetry, outcomes>>

Health ==
    /\ health' = <<[status |-> 200, body |-> health_body]>>
    /\ UNCHANGED <<config, scripts, parked, db_calls, pc, body, q, result, response, trace, telemetry, outcomes>>

Next ==
    \/ Receive
    \/ TryPrimary
    \/ PrimaryRunReturns
    \/ PrimaryRunRaises
    \/ TrySecondary
    \/ SecondaryRunReturns
    \/ SecondaryRunRaises
    \/ UseFallback
    \/ TryAgent
    \/ AgentRunReturns
    \/ AgentRunRaises
    \/ Respond
    \/ Health

Spec == Init /\ [][Next]_vars

-----------------------------------------------------------------------------
(* DatabaseConn, and what an agent run does with it: the instruction       *)
(* add_customer_name and the tool customer_balance.                        *)

MaxDbCalls == 2

\* The stub with the two amounts the wrong way round.
DatabaseConn_customer_balance_swapped(id, include_pending) ==
    IF include_pending THEN 10000 ELSE 12345

\* DatabaseConn.customer_name: the provided name, for any customer id.
DatabaseConn_customer_name(id, name) == name

\* DatabaseConn.customer_balance: 123.45 or 100.00, for any customer id.
\* Amounts are counted in hundredths: 12345 is 123.45.
DatabaseConn_customer_balance(id, include_pending) ==
    IF include_pending THEN 12345 ELSE 10000

DecimalDigits == <<"0","1","2","3","4","5","6","7","8","9">>

RECURSIVE int_digits(_)
int_digits(n) ==
    IF n < 10 THEN <<DecimalDigits[n + 1]>>
    ELSE int_digits(n \div 10) \o <<DecimalDigits[(n % 10) + 1]>>

\* f"${balance:.2f}" of an amount given in hundredths: "$", the integer
\* part, ".", and two decimals.
format_balance(hundredths) ==
    <<"$">> \o int_digits(hundredths \div 100) \o <<".">>
        \o <<DecimalDigits[((hundredths % 100) \div 10) + 1],
             DecimalDigits[(hundredths % 10) + 1]>>

\* deps = SupportDependencies(customer_id=q.customer_id,
\*                            customer_name=q.customer_name, db=DatabaseConn())
deps == [customer_id |-> q[1].customer_id, customer_name |-> q[1].customer_name]

DbCall(method, id, include_pending, name, amount, text) ==
    [method |-> method, id |-> id, include_pending |-> include_pending,
     name |-> name, amount |-> amount, text |-> text]

\* @agent.instructions add_customer_name: evaluated when the run asks the
\* model; it reads the name through DatabaseConn.customer_name.
add_customer_name ==
    /\ pc \in {"PrimaryRun", "SecondaryRun"}
    /\ Len(db_calls) < MaxDbCalls
    /\ LET customer_name ==
               DatabaseConn_customer_name(deps.customer_id, deps.customer_name) IN
         db_calls' = Append(db_calls,
             DbCall("customer_name", deps.customer_id, FALSE, deps.customer_name,
                    0, customer_name))
    /\ UNCHANGED <<config, scripts, parked, health, pc, body, q, result, response, trace,
                   telemetry, outcomes>>

\* @agent.tool customer_balance(ctx, include_pending): the model calls it
\* with the include_pending it chooses; the id is that of deps.
customer_balance ==
    /\ pc \in {"PrimaryRun", "SecondaryRun"}
    /\ Len(db_calls) < MaxDbCalls
    /\ \E include_pending \in BOOLEAN :
        LET balance ==
                DatabaseConn_customer_balance(deps.customer_id, include_pending) IN
          db_calls' = Append(db_calls,
              DbCall("customer_balance", deps.customer_id, include_pending, <<>>,
                     balance, format_balance(balance)))
    /\ UNCHANGED <<config, scripts, parked, health, pc, body, q, result, response, trace,
                   telemetry, outcomes>>

\* app/main.py with at least one agent, served one request at a time.
InitTool ==
    /\ variant = "main"
    /\ primary_agent \in BOOLEAN
    /\ fallback_agent \in BOOLEAN
    /\ has_ai_agents
    /\ logfire_enabled \in BOOLEAN
    /\ InitRequest
    /\ validate = <<>>
    /\ mapper = <<>>
    /\ parked = <<>>

\* Well-formed bodies with every choice of customer_id and include_pending.
ToolBodies ==
    { b \in Bodies({<<"B","a","l","a","n","c","e">>}) :
        /\ b.question.tag = "ok"
        /\ b.customer_name.tag = "ok"
        /\ b.customer_id.tag # "wrong_type"
        /\ b.include_pending.tag # "wrong_type" }

ReceiveTool ==
    /\ pc = "idle"
    /\ \E b \in ToolBodies : accept(b)

NextTool ==
    \/ ReceiveTool
    \/ TryPrimary
    \/ add_customer_name
    \/ customer_balance
    \/ PrimaryRunReturns
    \/ PrimaryRunRaises
    \/ TrySecondary
    \/ SecondaryRunReturns
    \/ SecondaryRunRaises
    \/ UseFallback
    \/ Respond

SpecTool == InitTool /\ [][NextTool]_vars

\* The steps the handler takes by itself between two awaits: the event loop
\* runs them as soon as they can run.  When an awaited agent call ends is for
\* the provider and the HTTP client to decide: support() sets no timeout on
\* it, so nothing in this code makes it end.
SpecLive ==
    /\ Init
    /\ [][Next]_vars
    /\ WF_vars(TryPrimary)
    /\ WF_vars(TrySecondary)
    /\ WF_vars(UseFallback)
    /\ WF_vars(TryAgent)

NextMock ==
    \/ ReceiveMock
    \/ TryPrimary
    \/ TrySecondary
    \/ UseFallback
    \/ Respond

SpecMock == InitMock /\ [][NextMock]_vars

-----------------------------------------------------------------------------
(* Two requests in flight.  support() is `async def`: the event loop runs   *)
(* one request at a time and can change to another one only where the      *)
(* running one awaits (agent.run) or has returned.                          *)

\* The locals of the request that is running.
frame ==
    [pc |-> pc, body |-> body, q |-> q, result |-> result, response |-> response,
     trace |-> trace, telemetry |-> telemetry, outcomes |-> outcomes]

\* Request bodies: two that differ in every field, two that differ from
\* these in customer_id and include_pending only or in all but the question,
\* and one that does not validate.
ConcBodies ==
    { [question        |-> Field("ok", <<"S","T","O","L","E","N">>),
       customer_name   |-> Field("ok", <<"B","o","b">>),
       customer_id     |-> Field("ok", 456),
       include_pending |-> Field("ok", FALSE)],
      [question        |-> Field("ok", <<"S","T","O","L","E","N">>),
       customer_name   |-> Field("ok", <<"B","o","b">>),
       customer_id     |-> Field("missing", 0),
       include_pending |-> Field("missing", FALSE)],
      [question        |-> Field("ok", <<"B","a","l","a","n","c","e">>),
       customer_name   |-> Field("ok", <<"B","o","b">>),
       customer_id     |-> Field("ok", 456),
       include_pending |-> Field("ok", FALSE)],
      [question        |-> Field("ok", <<"B","a","l","a","n","c","e">>),
       customer_name   |-> Field("ok", <<>>),
       customer_id     |-> Field("missing", 0),
       include_pending |-> Field("missing", FALSE)],
      [question        |-> Field("missing", <<>>),
       customer_name   |-> Field("ok", <<"B","o","b">>),
       customer_id     |-> Field("ok", 456),
       include_pending |-> Field("ok", FALSE)] }

InitConc ==
    /\ variant = "main"
    /\ primary_agent \in BOOLEAN
    /\ fallback_agent \in BOOLEAN
    /\ logfire_enabled \in BOOLEAN
    /\ InitRequest
    /\ validate = <<>>
    /\ mapper = <<>>
    /\ parked = <<[pc |-> "idle", body |-> <<>>, q |-> <<>>, result |-> <<>>,
                   response |-> NoResponse, trace |-> <<>>, telemetry |-> <<>>,
                   outcomes |-> <<>>]>>

ReceiveConc ==
    /\ pc = "idle"
    /\ \E b \in ConcBodies : accept(b)

\* A change of request that carries the parsed query over to the request
\* that is resumed, as a module-level `q` would.
Switch_q_shared ==
    /\ parked # <<>>
    /\ pc \in {"idle", "PrimaryRun", "SecondaryRun", "Done"}
    /\ parked' = <<frame>>
    /\ pc' = parked[1].pc
    /\ body' = parked[1].body
    /\ q' = IF parked[1].q = <<>> THEN <<>> ELSE q
    /\ result' = parked[1].result
    /\ response' = parked[1].response
    /\ trace' = parked[1].trace
    /\ telemetry' = parked[1].telemetry
    /\ outcomes' = parked[1].outcomes
    /\ UNCHANGED <<config, scripts, health, db_calls>>

\* The event loop leaves the running request where it awaits, or after it
\* has returned, and goes on with the other one: each request has its own
\* locals (q, deps, result), and nothing else is kept per request.
Switch ==
    /\ parked # <<>>
    /\ pc \in {"idle", "PrimaryRun", "SecondaryRun", "Done"}
    /\ parked' = <<frame>>
    /\ pc' = parked[1].pc
    /\ body' = parked[1].body
    /\ q' = parked[1].q
    /\ result' = parked[1].result
    /\ response' = parked[1].response
    /\ trace' = parked[1].trace
    /\ telemetry' = parked[1].telemetry
    /\ outcomes' = parked[1].outcomes
    /\ UNCHANGED <<config, scripts, health, db_calls>>

NextConc ==
    \/ ReceiveConc
    \/ TryPrimary
    \/ PrimaryRunReturns
    \/ PrimaryRunRaises
    \/ TrySecondary
    \/ SecondaryRunReturns
    \/ SecondaryRunRaises
    \/ UseFallback
    \/ Respond
    \/ Switch

SpecConc == InitConc /\ [][NextConc]_vars

-----------------------------------------------------------------------------
(* validate_api_integration.py: the build-time validation script.          *)

\* os.getenv(name): None, a string of blanks, or a value.
EnvValues == {"unset", "blank", "set"}

\* `value is None or value.strip() == ''` is the missing case.
is_missing(value) == value \in {"unset", "blank"}

\* check_environment_variables(): False if a required variable is missing;
\* LOGFIRE_TOKEN is optional.
check_environment_variables(env) ==
    ~is_missing(env.OPENAI_API_KEY) /\ ~is_missing(env.ANTHROPIC_API_KEY)

\* What a check of an API can come to: the call answers as expected, answers
\* without choices/content, the package is not installed, or the call raises.
ApiOutcomes == {"working", "unexpected_format", "import_error", "exception"}

\* What the check of POST /support can come to.
SupportOutcomes == {"working", "missing_fields", "invalid_risk", "http_error", "exception"}

\* The verdict that leaves the support check out.
all_passed_without_support(v) ==
    v.env_ok /\ v.openai_ok /\ v.anthropic_ok

\* all_passed = env_ok and openai_ok and anthropic_ok and support_ok
all_passed(v) ==
    v.env_ok /\ v.openai_ok /\ v.anthropic_ok /\ v.support_ok

InitValidate ==
    /\ variant = "main"
    /\ primary_agent = FALSE
    /\ fallback_agent = FALSE
    /\ logfire_enabled = FALSE
    /\ InitRequest
    /\ parked = <<>>
    /\ mapper = <<>>
    /\ \E e \in [OPENAI_API_KEY : EnvValues, ANTHROPIC_API_KEY : EnvValues,
                 LOGFIRE_TOKEN : EnvValues] :
        validate = <<[pc |-> "start", env |-> e, env_ok |-> FALSE,
                      openai_ok |-> FALSE, anthropic_ok |-> FALSE,
                      support_ok |-> FALSE, openai |-> "not_run",
                      anthropic |-> "not_run", support |-> "not_run",
                      ran |-> <<>>, exit |-> -1]>>

service == <<config, parked, health, db_calls, pc, body, q, result, response,
             trace, telemetry, outcomes, mapper>>

\* main(): step 1, and sys.exit(1) when a required variable is missing.
main_check_environment ==
    /\ validate[1].pc = "start"
    /\ LET env_ok == check_environment_variables(validate[1].env) IN
         validate' = <<[validate[1] EXCEPT
                          !.env_ok = env_ok,
                          !.ran = Append(@, "env"),
                          !.exit = IF env_ok THEN @ ELSE 1,
                          !.pc = IF env_ok THEN "openai" ELSE "exited"]>>
    /\ UNCHANGED service

\* openai_ok = await test_openai_api(): every exception is caught inside.
main_test_openai ==
    /\ validate[1].pc = "openai"
    /\ \E o \in ApiOutcomes :
        validate' = <<[validate[1] EXCEPT
                         !.openai = o,
                         !.openai_ok = (o = "working"),
                         !.ran = Append(@, "openai"),
                         !.pc = "anthropic"]>>
    /\ UNCHANGED service

\* anthropic_ok = await test_anthropic_api()
main_test_anthropic ==
    /\ validate[1].pc = "anthropic"
    /\ \E o \in ApiOutcomes :
        validate' = <<[validate[1] EXCEPT
                         !.anthropic = o,
                         !.anthropic_ok = (o = "working"),
                         !.ran = Append(@, "anthropic"),
                         !.pc = "support"]>>
    /\ UNCHANGED service

\* support_ok = await test_bank_support_endpoint()
main_test_support ==
    /\ validate[1].pc = "support"
    /\ \E o \in SupportOutcomes :
        validate' = <<[validate[1] EXCEPT
                         !.support = o,
                         !.support_ok = (o = "working"),
                         !.ran = Append(@, "support"),
                         !.pc = "results"]>>
    /\ UNCHANGED service

\* The final results: sys.exit(0) if all_passed, else sys.exit(1).
main_exit ==
    /\ validate[1].pc = "results"
    /\ validate' = <<[validate[1] EXCEPT
                        !.exit = IF all_passed(validate[1]) THEN 0 ELSE 1,
                        !.pc = "exited"]>>
    /\ UNCHANGED service

NextValidate ==
    \/ main_check_environment
    \/ main_test_openai
    \/ main_test_anthropic
    \/ main_test_support
    \/ main_exit

SpecValidate == InitValidate /\ [][NextValidate]_vars

-----------------------------------------------------------------------------
(* test_request_mapper.py: request_attributes_mapper.                      *)

PreviewLimit == 100

MaxQuestionLen == 102

\* A text of n characters, no two neighbours alike.
text_of_length(n) == [i \in 1..n |-> DecimalDigits[(i % 10) + 1]]

\* The cut taken for questions of 100 characters as well.
question_preview_from_limit(question) ==
    IF Len(question) >= PreviewLimit
    THEN SubSeq(question, 1, PreviewLimit) \o <<".", ".", ".">>
    ELSE question

\* values["question"][:100] + "..." if len(values["question"]) > 100
\*     else values["question"]
question_preview(question) ==
    IF Len(question) > PreviewLimit
    THEN SubSeq(question, 1, PreviewLimit) \o <<".", ".", ".">>
    ELSE question

\* A dict of the parsed arguments: each key is there (one value) or not.
ValuesDicts ==
    [question      : {<<>>} \cup {<<text_of_length(n)>> : n \in 0..MaxQuestionLen},
     customer_name : {<<>>, <<<<"B","o","b">>>>},
     customer_id   : {<<>>, <<DefaultCustomerId>>}]

\* `attributes`: "errors" and "values" are absent, or there with a list (it
\* may be empty) and a dict (it may be empty).
MapperAttributes ==
    [errors : {<<>>, << <<>> >>, << <<"missing body.customer_name">> >>},
     values : {<<>>} \cup {<<d>> : d \in ValuesDicts}]

MapperRequests == [path : {"/support", "/health", "/"}]

\* bool(d) of a dict: it has a key.
dict_truthy(d) == d.question # <<>> \/ d.customer_name # <<>> \/ d.customer_id # <<>>

\* request_attributes_mapper(request, attributes): the dict custom_attrs,
\* each of its four keys there (one value) or not.
request_attributes_mapper(request, attributes) ==
    LET with_values ==
            /\ attributes.values # <<>>
            /\ dict_truthy(attributes.values[1])
            /\ request.path = "/support"
    IN  [request_path |-> <<request.path>>,
         validation_errors |->
             IF attributes.errors # <<>> /\ attributes.errors[1] # <<>>
             THEN <<attributes.errors[1]>> ELSE <<>>,
         support_customer_name |->
             IF with_values /\ attributes.values[1].customer_name # <<>>
             THEN <<attributes.values[1].customer_name[1]>> ELSE <<>>,
         support_question_preview |->
             IF with_values /\ attributes.values[1].question # <<>>
             THEN <<question_preview(attributes.values[1].question[1])>> ELSE <<>>]

InitMapper ==
    /\ variant = "main"
    /\ primary_agent = FALSE
    /\ fallback_agent = FALSE
    /\ logfire_enabled = FALSE
    /\ InitRequest
    /\ parked = <<>>
    /\ validate = <<>>
    /\ \E request \in MapperRequests, attributes \in MapperAttributes :
        mapper = <<[request |-> request, attributes |-> attributes,
                    custom_attrs |-> <<>>]>>

\* result = request_attributes_mapper(request, attributes)
call_request_attributes_mapper ==
    /\ mapper[1].custom_attrs = <<>>
    /\ mapper' = <<[mapper[1] EXCEPT !.custom_attrs =
                       <<request_attributes_mapper(mapper[1].request,
                                                   mapper[1].attributes)>>]>>
    /\ UNCHANGED <<config, parked, health, db_calls, pc, body, q, result, response,
                   trace, telemetry, outcomes, validate>>

NextMapper == call_request_attributes_mapper

SpecMapper == InitMapper /\ [][NextMapper]_vars

-----------------------------------------------------------------------------
(* Properties of the failover chain.                                       *)

\* A request body as the interface describes a well-formed one: question and
\* customer_name are strings, customer_id and include_pending are of the
\* right type or left out.
WellFormed ==
    /\ body # <<>>
    /\ body[1].question.tag = "ok"
    /\ body[1].customer_name.tag = "ok"
    /\ body[1].customer_id.tag # "wrong_type"
    /\ body[1].include_pending.tag # "wrong_type"

\* An output that passes the SupportOutput schema.
IsSupportAssessment(o) ==
    /\ o.risk \in 0..10
    /\ o.block_card \in BOOLEAN

HandlerStep ==
    \/ TryPrimary
    \/ PrimaryRunReturns
    \/ PrimaryRunRaises
    \/ TrySecondary
    \/ SecondaryRunReturns
    \/ SecondaryRunRaises
    \/ UseFallback

\* How far the handler of app/main.py has come.
Rank(p) ==
    CASE p = "idle" -> 0
      [] p = "TryPrimary" -> 1
      [] p = "PrimaryRun" -> 2
      [] p = "TrySecondary" -> 3
      [] p = "SecondaryRun" -> 4
      [] p = "UseFallback" -> 5
      [] p = "Done" -> 6
      [] OTHER -> 7

Failed(who) == \E i \in 1..Len(trace) : trace[i] = Event("fail", who)

Succeeded(who) == \E i \in 1..Len(trace) : trace[i] = Event("ok", who)

\* C1: in app/main.py a well-formed request never sees an evaluator failure:
\* whatever the configuration and whatever each LLM attempt does, the handler
\* is never stuck before Done, every step of it takes it strictly closer to Done,
\* and at Done the response is 200 with an output that passes the schema.
C1_NeverRaised ==
    /\ [](variant = "main" /\ WellFormed =>
            /\ Rank(pc) \in 1..6
            /\ response.status \in {0, 200}
            /\ pc # "Done" => response = NoResponse /\ ENABLED HandlerStep
            /\ pc = "Done" =>
                /\ response.status = 200
                /\ Len(response.output) = 1
                /\ IsSupportAssessment(response.output[1]))
    /\ [][variant = "main" /\ pc \notin {"idle", "Done"} /\ pc' # pc
            => Rank(pc') > Rank(pc)]_vars

\* C1 witness: both LLM evaluators failed, one of them on malformed output,
\* and the request still ended with a 200.
C1_Witness ==
    /\ variant = "main" /\ WellFormed /\ pc = "Done"
    /\ Failed("primary") /\ Failed("fallback")
    /\ response.status = 200
    /\ \E i \in 1..Len(telemetry) : telemetry[i] = "error Fallback LLM failed"

OkEvents == { i \in 1..Len(trace) : trace[i].ev = "ok" }

\* C2: in app/main.py at most one evaluator completes successfully per
\* request; the success of an evaluator is the last thing that happens: the
\* request is Done with status 200, and what an LLM evaluator returned is the
\* response, unmodified; with telemetry enabled or not.
C2_AtMostOneSuccess ==
    variant = "main" =>
        /\ Cardinality(OkEvents) <= 1
        /\ \A i \in OkEvents :
            /\ i = Len(trace)
            /\ pc = "Done"
            /\ response.status = 200
            /\ trace[i].who \in {"primary", "fallback"} =>
                /\ Len(result) = 1
                /\ response.output = result
        /\ pc = "Done" /\ result # <<>> => response.output = result

\* C2 witness: telemetry on, the primary evaluator succeeded while a
\* secondary evaluator was configured, and nothing else was invoked.
C2_Witness ==
    /\ variant = "main" /\ logfire_enabled /\ fallback_agent
    /\ pc = "Done"
    /\ trace = <<Event("start", "primary"), Event("ok", "primary")>>
    /\ response.output = result

\* C3: in app/main.py a failed primary evaluator is followed by the secondary
\* one when it is configured and by the keyword evaluator otherwise; a failed
\* secondary evaluator is followed by the keyword evaluator; a well-formed
\* request is served by the keyword evaluator exactly when every configured
\* LLM evaluator failed on it, and its response is then 200.
C3_FailoverChain ==
    variant = "main" =>
        /\ \A i \in 1..(Len(trace) - 1) :
            /\ trace[i] = Event("fail", "primary") =>
                trace[i + 1] = Event("start", IF fallback_agent THEN "fallback" ELSE "mock")
            /\ trace[i] = Event("fail", "fallback") =>
                trace[i + 1] = Event("start", "mock")
        /\ pc = "Done" /\ WellFormed =>
            /\ trace # <<>>
            /\ trace[Len(trace)].ev = "ok"
            /\ Succeeded("mock") <=>
                 /\ primary_agent => Failed("primary")
                 /\ fallback_agent => Failed("fallback")
            /\ Succeeded("mock") => response.status = 200 /\ Len(response.output) = 1

\* C3 witness: primary failed, secondary was invoked and failed, the keyword
\* evaluator served the request.
C3_Witness ==
    /\ variant = "main" /\ pc = "Done"
    /\ trace = <<Event("start", "primary"), Event("fail", "primary"),
                 Event("start", "fallback"), Event("fail", "fallback"),
                 Event("start", "mock"), Event("ok", "mock")>>
    /\ response.status = 200

Order(who) ==
    CASE who = "primary" -> 1
      [] who = "fallback" -> 2
      [] who = "mock" -> 3
      [] OTHER -> 4

\* C4: in app/main.py the evaluators are invoked in the order primary,
\* secondary, keyword evaluator, each at most once; an invocation starts only
\* when the one before it has finished; an evaluator that is not configured
\* is never invoked.
C4_SequentialOrder ==
    variant = "main" =>
        /\ \A i \in 1..Len(trace) :
            /\ Order(trace[i].who) \in 1..3
            /\ (trace[i].ev = "start") <=> (i % 2 = 1)
            /\ i % 2 = 0 => trace[i].who = trace[i - 1].who
            /\ trace[i].who = "primary" => primary_agent
            /\ trace[i].who = "fallback" => fallback_agent
        /\ \A i, j \in 1..Len(trace) :
            i < j /\ trace[i].ev = "start" /\ trace[j].ev = "start" =>
                Order(trace[i].who) < Order(trace[j].who)
        /\ Len(trace) % 2 = 1 <=> pc \in {"PrimaryRun", "SecondaryRun"}

\* C4 witness: the secondary evaluator is in flight after the primary one has
\* finished with a failure.
C4_Witness ==
    /\ variant = "main" /\ pc = "SecondaryRun"
    /\ trace = <<Event("start", "primary"), Event("fail", "primary"),
                 Event("start", "fallback")>>

\* C5: in app/main.py with neither LLM evaluator configured no LLM evaluator
\* is ever invoked, and a well-formed request is answered with exactly what
\* the keyword evaluator gives for its question and customer_name.
C5_DirectFallback ==
    variant = "main" /\ ~primary_agent /\ ~fallback_agent =>
        /\ \A i \in 1..Len(trace) : trace[i].who = "mock"
        /\ pc \notin {"PrimaryRun", "SecondaryRun"}
        /\ pc = "Done" /\ WellFormed =>
            /\ trace = <<Event("start", "mock"), Event("ok", "mock")>>
            /\ response = [status |-> 200,
                           output |-> <<mock_support_response(body[1].question.val,
                                            body[1].customer_name.val)>>]

\* C5 witness: no evaluator configured, a fraud question from Bob answered by
\* the keyword evaluator.
C5_Witness ==
    /\ variant = "main" /\ ~has_ai_agents /\ pc = "Done" /\ WellFormed
    /\ body[1].customer_name.val = <<"B","o","b">>
    /\ body[1].question.val = <<"f","r","a","u","d">>
    /\ response.status = 200
    /\ response.output[1].risk = 8

-----------------------------------------------------------------------------
(* Status codes over the three deployment variants.                        *)

LastEvent == trace[Len(trace)]

\* C6 as stated: in every variant a well-formed request is answered 200 with
\* an output, and the only other status a caller can see is 422, for a
\* request that is not well-formed.
C6_Always200 ==
    pc = "Done" =>
        /\ WellFormed => response.status = 200 /\ Len(response.output) = 1
        /\ response.status # 200 => response.status = 422 /\ ~WellFormed

\* C6 amended: a well-formed request is never answered 422; app/main.py
\* answers it 200 with an output whatever the LLM evaluators do;
\* modal_app.py and bank_support_example.py, which call one LLM evaluator
\* with no failover, answer it 200 with that evaluator's output when the call
\* succeeds and 500 when the call fails.  A request that is not well-formed
\* is answered 422 (bank_support_example.py does not look at include_pending).
C6_StatusByVariant ==
    pc = "Done" =>
        /\ response.status \in {200, 422, 500}
        /\ response.status = 422 => ~WellFormed /\ trace = <<>>
        /\ ~WellFormed /\ (variant # "example" \/ body[1].include_pending.tag # "wrong_type")
             => response.status = 422
        /\ response.status = 200 <=> Len(response.output) = 1
        /\ variant = "main" /\ WellFormed => response.status = 200
        /\ variant # "main" /\ WellFormed =>
            /\ trace # <<>>
            /\ LastEvent = Event("ok", "agent") => response.status = 200
            /\ LastEvent = Event("fail", "agent") => response.status = 500
            /\ LastEvent.who = "agent" /\ LastEvent.ev \in {"ok", "fail"}
        /\ response.status = 500 => variant # "main" /\ Failed("agent")

\* C6 witness: the single evaluator of modal_app.py failed on a well-formed
\* request and the caller got a 500.
C6_Witness ==
    /\ variant = "modal" /\ pc = "Done" /\ WellFormed
    /\ Failed("agent")
    /\ response.status = 500

-----------------------------------------------------------------------------
(* Properties of the keyword evaluator.                                    *)

upper_of(c) ==
    IF \E i \in 1..Len(LowerLetters) : LowerLetters[i] = c
    THEN UpperLetters[CHOOSE i \in 1..Len(LowerLetters) : LowerLetters[i] = c]
    ELSE c

\* word (given in lower case) occurs in text, each letter in either case.
Mentions(text, word) ==
    \E i \in 1..(Len(text) - Len(word) + 1) :
        \A j \in 1..Len(word) : text[i + j - 1] \in {word[j], upper_of(word[j])}

MentionsTheft(text) ==
    \/ Mentions(text, <<"l","o","s","t">>)
    \/ Mentions(text, <<"s","t","o","l","e","n">>)
    \/ Mentions(text, <<"m","i","s","s","i","n","g">>)

MentionsFraud(text) ==
    \/ Mentions(text, <<"f","r","a","u","d">>)
    \/ Mentions(text, <<"s","u","s","p","i","c","i","o","u","s">>)
    \/ Mentions(text, <<"u","n","a","u","t","h","o","r","i","z","e","d">>)

MentionsBalance(text) ==
    \/ Mentions(text, <<"b","a","l","a","n","c","e">>)
    \/ Mentions(text, <<"a","c","c","o","u","n","t">>)

\* A well-formed request of app/main.py with no LLM configured has been
\* answered.
MockServed ==
    /\ variant = "main" /\ ~primary_agent /\ ~fallback_agent
    /\ pc = "Done" /\ WellFormed

Asked == body[1].question.val

Answer == response.output[1]

\* C7: with no LLM configured, a question that mentions lost, stolen or
\* missing in any letter case is answered risk 9, block_card true, category
\* critical.
C7_TheftRule ==
    MockServed /\ MentionsTheft(Asked) =>
        /\ response.status = 200
        /\ Answer.risk = 9
        /\ Answer.block_card = TRUE
        /\ Answer.risk_category = "critical"

\* C7 witness: the only theft keyword of the question is "Missing", in mixed
\* case.
C7_Witness ==
    /\ MockServed
    /\ Asked = <<"M","i","s","s","i","n","g">> \o <<" ","m","y"," ","c","a","r","d">>
    /\ Answer.risk = 9

\* C8: a question that mentions fraud, suspicious or unauthorized and none of
\* lost, stolen, missing is answered risk 8, block_card true, category urgent.
C8_FraudRule ==
    MockServed /\ MentionsFraud(Asked) /\ ~MentionsTheft(Asked) =>
        /\ response.status = 200
        /\ Answer.risk = 8
        /\ Answer.block_card = TRUE
        /\ Answer.risk_category = "urgent"

\* C8 witness: "unAuthorized" next to a balance keyword.
C8_Witness ==
    /\ MockServed
    /\ Asked = <<"u","n","A","u","t","h","o","r","i","z","e","d">>
                 \o <<"a","c","c","o","u","n","t">>
    /\ Answer.risk = 8

\* C9: a question that mentions balance or account and no theft or fraud
\* keyword is answered risk 1, block_card false, category routine, with an
\* advice that mentions the balance.
C9_BalanceRule ==
    MockServed /\ MentionsBalance(Asked) /\ ~MentionsTheft(Asked)
        /\ ~MentionsFraud(Asked) =>
        /\ response.status = 200
        /\ Answer.risk = 1
        /\ Answer.risk < 3
        /\ Answer.block_card = FALSE
        /\ Answer.risk_category = "routine"
        /\ Mentions(Answer.support_advice, <<"b","a","l","a","n","c","e">>)

\* C9 witness: "account" after the near-miss "stole".
C9_Witness ==
    /\ MockServed
    /\ Asked = <<"s","t","o","l","e">> \o <<"a","c","c","o","u","n","t">>
    /\ Answer.risk = 1
    /\ Answer.risk_signals = <<"balance inquiry">>

\* C10: a question that mentions no theft, fraud or balance keyword is
\* answered risk 2, block_card false, category routine, with no risk signal.
C10_DefaultRule ==
    MockServed /\ ~MentionsTheft(Asked) /\ ~MentionsFraud(Asked)
        /\ ~MentionsBalance(Asked) =>
        /\ response.status = 200
        /\ Answer.risk = 2
        /\ Answer.block_card = FALSE
        /\ Answer.risk_category = "routine"
        /\ Answer.risk_signals = <<>>

\* C10 witness: "stole my card" holds no keyword of any rule.
C10_Witness ==
    /\ MockServed
    /\ Asked = <<"s","t","o","l","e">> \o <<" ","m","y"," ","c","a","r","d">>
    /\ Answer.risk = 2
    /\ Answer.risk_signals = <<>>

-----------------------------------------------------------------------------
(* Precedence of the rules and the output contract.                        *)

\* The rule that has the highest priority among those whose keywords the text
\* mentions, wherever they stand in it.
RuleOf(text) ==
    IF MentionsTheft(text) THEN "theft"
    ELSE IF MentionsFraud(text) THEN "fraud"
    ELSE IF MentionsBalance(text) THEN "balance"
    ELSE "default"

RulesMentioned(text) ==
    Cardinality({r \in {"theft", "fraud", "balance"} :
        \/ r = "theft" /\ MentionsTheft(text)
        \/ r = "fraud" /\ MentionsFraud(text)
        \/ r = "balance" /\ MentionsBalance(text)})

\* C11: the keyword evaluator answers by the highest-priority rule among
\* theft > fraud > balance > default whose keywords the question mentions,
\* whatever the order of the keywords in the question.
C11_RulePrecedence ==
    MockServed =>
        /\ response.status = 200
        /\ <<Answer.risk, Answer.block_card, Answer.risk_category>> =
             CASE RuleOf(Asked) = "theft" -> <<9, TRUE, "critical">>
               [] RuleOf(Asked) = "fraud" -> <<8, TRUE, "urgent">>
               [] RuleOf(Asked) = "balance" -> <<1, FALSE, "routine">>
               [] OTHER -> <<2, FALSE, "routine">>

\* C11 witness: a fraud keyword stands before a theft keyword and the theft
\* rule still decides.
C11_Witness ==
    /\ MockServed
    /\ Asked = <<"f","r","a","u","d">> \o <<"l","o","s","t">>
    /\ RulesMentioned(Asked) = 2
    /\ Answer.risk = 9

\* A request has been answered 200.
Answered == pc = "Done" /\ response.status = 200

\* C12: every assessment returned by POST /support, by an LLM evaluator or by
\* the keyword evaluator, in any of the three modules, has an integer risk
\* between 0 and 10.
C12_RiskInRange ==
    Answered =>
        /\ Len(response.output) = 1
        /\ Answer.risk \in Int
        /\ Answer.risk >= 0
        /\ Answer.risk <= 10

\* C12 witness: the secondary LLM evaluator served the request with the
\* largest risk the schema allows.
C12_Witness ==
    /\ Answered /\ variant = "main"
    /\ Succeeded("fallback")
    /\ Answer.risk = 10

Categories == {"routine", "concerning", "urgent", "critical"}

\* The category of a risk by the bands 0-2, 3-5, 6-8, 9-10.
Band(risk) ==
    IF risk <= 2 THEN "routine"
    ELSE IF risk <= 5 THEN "concerning"
    ELSE IF risk <= 8 THEN "urgent"
    ELSE "critical"

\* C13 as stated: every assessment returned, whichever evaluator produced it,
\* has one of the four categories and the one its risk falls in.
C13_BandsEveryPath ==
    Answered =>
        /\ Answer.risk_category \in Categories
        /\ Answer.risk_category = Band(Answer.risk)

\* C13 amended: every assessment produced by the keyword evaluator has one of
\* the four categories and the one its risk falls in.  (The category of an
\* LLM evaluator's assessment is whatever string the model gave: the schema
\* declares risk_category as a plain str.)
C13_BandsOfKeywordEvaluator ==
    Answered /\ Succeeded("mock") =>
        /\ Answer.risk_category \in Categories
        /\ Answer.risk_category = Band(Answer.risk)

\* C13 witness: the keyword evaluator served a fraud question after both LLM
\* evaluators failed: risk 8, urgent.
C13_Witness ==
    /\ Answered /\ Succeeded("mock")
    /\ Failed("primary") /\ Failed("fallback")
    /\ Answer.risk = 8
    /\ Answer.risk_category = "urgent"

\* C14: every assessment returned has a non-empty advice and a non-empty
\* risk_explanation, for every question and customer_name and every
\* evaluator.
C14_NonEmptyTexts ==
    Answered =>
        /\ Answer.support_advice # <<>>
        /\ Answer.risk_explanation # ""

-----------------------------------------------------------------------------
(* Request validation and GET /health.                                     *)

\* C15: a body that lacks question or lacks customer_name is answered 422 and
\* no evaluator is invoked for it; leaving out customer_id or include_pending
\* is no error: the Query then holds customer_id 123 and, where the Query has
\* the field, include_pending true.
C15_MissingRequired ==
    body # <<>> =>
        /\ (body[1].question.tag = "missing" \/ body[1].customer_name.tag = "missing") =>
            /\ pc = "Done"
            /\ response = [status |-> 422, output |-> <<>>]
            /\ q = <<>>
            /\ trace = <<>>
            /\ outcomes = <<>>
        /\ WellFormed =>
            /\ response.status # 422
            /\ Len(q) = 1
            /\ body[1].customer_id.tag = "missing" => q[1].customer_id = 123
            /\ body[1].customer_id.tag = "ok" => q[1].customer_id = body[1].customer_id.val
            /\ variant # "example" /\ body[1].include_pending.tag = "missing" =>
                q[1].include_pending = TRUE
            /\ variant # "example" /\ body[1].include_pending.tag = "ok" =>
                q[1].include_pending = body[1].include_pending.val

\* C15 witness: app/main.py with both agents configured got a body with a
\* question and no customer_name, everything else in order.
C15_Witness ==
    /\ variant = "main" /\ primary_agent /\ fallback_agent
    /\ body # <<>>
    /\ body[1].question = Field("ok", <<"l","o","s","t">>)
    /\ body[1].customer_name.tag = "missing"
    /\ body[1].customer_id.tag = "missing"
    /\ body[1].include_pending.tag = "missing"
    /\ response.status = 422

\* C16: GET /health can be served in every state, whatever is configured and
\* whatever /support requests did or are doing; its response is 200 with
\* status "ok"; serving it invokes no evaluator and leaves the request in
\* flight as it is.
C16_HealthAlwaysOk ==
    /\ [](/\ ENABLED Health
          /\ health # <<>> => health[1].status = 200 /\ health[1].body.status = "ok")
    /\ [][health' # health =>
            /\ trace' = trace
            /\ outcomes' = outcomes
            /\ pc' = pc
            /\ response' = response]_vars

\* C16 witness: app/main.py with telemetry on has answered a health check
\* while a request whose primary evaluator failed is waiting for the
\* secondary one.
C16_Witness ==
    /\ variant = "main" /\ logfire_enabled
    /\ pc = "SecondaryRun" /\ Failed("primary")
    /\ health # <<>>
    /\ health[1].status = 200
    /\ health[1].body.status = "ok"

\* An output with the fields of the schema, a risk in range and a boolean
\* block_card.
PassesSchema(o) ==
    /\ DOMAIN o = {"support_advice", "block_card", "risk", "risk_explanation",
                   "risk_category", "risk_signals"}
    /\ o.risk \in 0..10
    /\ o.block_card \in BOOLEAN
    /\ Len(o.risk_signals) >= 0

\* C17: the keyword evaluator is total: whenever the handler reaches it, for
\* every question and every customer_name, the empty ones included, the call
\* can be made, it does not raise, and its output passes the output schema.
C17_EvaluatorTotal ==
    /\ pc = "UseFallback" => ENABLED UseFallback
    /\ \A i \in 1..Len(trace) : trace[i] # Event("fail", "mock")
    /\ trace # <<>> /\ LastEvent.who = "mock" =>
        /\ LastEvent = Event("ok", "mock")
        /\ pc = "Done"
        /\ response.status = 200
        /\ Len(response.output) = 1
        /\ PassesSchema(Answer)
        /\ Answer = mock_support_response(Asked, body[1].customer_name.val)

\* C17 witness: the empty question from a customer with the empty name.
C17_Witness ==
    /\ MockServed
    /\ Asked = <<>>
    /\ body[1].customer_name.val = <<>>
    /\ LastEvent = Event("ok", "mock")
    /\ PassesSchema(Answer)

\* What the output schema asks of an LLM answer, stated from the schema's
\* text: the five required fields are there and risk is in 0..10.
Malformed(raw) ==
    \/ raw.risk < 0
    \/ raw.risk > 10
    \/ raw.absent \cap {"support_advice", "block_card", "risk", "risk_explanation",
                        "risk_category"} # {}

\* The assessment an LLM answer would be if it were returned as it is.
Content(raw) ==
    [support_advice   |-> raw.support_advice,
     block_card       |-> raw.block_card,
     risk             |-> raw.risk,
     risk_explanation |-> raw.risk_explanation,
     risk_category    |-> raw.risk_category,
     risk_signals     |-> raw.risk_signals]

\* The evaluator that comes after `who` in the chain of app/main.py.
NextEvaluator(who) ==
    IF who = "primary" /\ fallback_agent THEN "fallback" ELSE "mock"

\* C18: an LLM answer that fails the output schema (a risk outside 0..10, a
\* required field missing) counts as the failure of the evaluator that got
\* it: the call ends in a failure, the answer is never the response, and in
\* app/main.py the handler goes on to the next evaluator of the chain, which
\* is the next one invoked and never the one that failed.
C18_MalformedIsFailure ==
    \A i \in 1..Len(outcomes) :
        outcomes[i].raw # <<>> /\ Malformed(outcomes[i].raw[1]) =>
            /\ Len(trace) >= 2 * i
            /\ trace[2 * i - 1].ev = "start"
            /\ trace[2 * i] = Event("fail", trace[2 * i - 1].who)
            /\ response.output # <<Content(outcomes[i].raw[1])>>
            /\ response.status = 200 => PassesSchema(Answer)
            /\ variant = "main" =>
                /\ trace[2 * i].who \in {"primary", "fallback"}
                /\ Len(trace) = 2 * i =>
                    pc \in (IF trace[2 * i].who = "primary"
                            THEN {"TrySecondary", "UseFallback"}
                            ELSE {"UseFallback"})
                /\ Len(trace) > 2 * i =>
                    trace[2 * i + 1] = Event("start", NextEvaluator(trace[2 * i].who))
                /\ pc = "Done" =>
                    /\ response.status = 200
                    /\ LastEvent.ev = "ok"
                    /\ LastEvent.who # trace[2 * i].who

\* C18 witness: the primary LLM left out a required field, the fallback LLM
\* answered with a risk of 11, and the keyword evaluator served the request.
C18_Witness ==
    /\ variant = "main" /\ pc = "Done"
    /\ Len(outcomes) = 2
    /\ outcomes[1].raw # <<>> /\ "support_advice" \in outcomes[1].raw[1].absent
    /\ outcomes[2].raw # <<>> /\ outcomes[2].raw[1].risk = 11
    /\ trace = <<Event("start", "primary"), Event("fail", "primary"),
                 Event("start", "fallback"), Event("fail", "fallback"),
                 Event("start", "mock"), Event("ok", "mock")>>
    /\ response.status = 200

\* The LLM evaluators app/main.py has, in the order of the chain.
Configured ==
    (IF primary_agent THEN <<"primary">> ELSE <<>>)
        \o (IF fallback_agent THEN <<"fallback">> ELSE <<>>)

\* What a request does, told from the request, the evaluators configured and
\* what each call did, and from nothing else: the evaluators are called in
\* order until one answers, and the keyword evaluator answers when none did.
RECURSIVE ExpectedTrace(_, _)
ExpectedTrace(whos, outs) ==
    IF whos = <<>> \/ outs = <<>>
    THEN <<Event("start", "mock"), Event("ok", "mock")>>
    ELSE IF Head(outs).ok
         THEN <<Event("start", Head(whos)), Event("ok", Head(whos))>>
         ELSE <<Event("start", Head(whos)), Event("fail", Head(whos))>>
                  \o ExpectedTrace(Tail(whos), Tail(outs))

RECURSIVE ExpectedOutput(_, _)
ExpectedOutput(whos, outs) ==
    IF whos = <<>> \/ outs = <<>>
    THEN mock_support_response(Asked, body[1].customer_name.val)
    ELSE IF Head(outs).ok
         THEN Head(outs).output[1]
         ELSE ExpectedOutput(Tail(whos), Tail(outs))

\* C19: telemetry has no effect on the response: in app/main.py the
\* evaluators invoked, their order, the status and the assessment of a
\* finished request are a function of the request, of the evaluators
\* configured and of what each call did; so two runs that agree on these and
\* differ in logfire_enabled end the same.
C19_TelemetryNoEffect ==
    variant = "main" /\ pc = "Done" =>
        IF WellFormed
        THEN /\ trace = ExpectedTrace(Configured, outcomes)
             /\ response = [status |-> 200,
                            output |-> <<ExpectedOutput(Configured, outcomes)>>]
        ELSE /\ trace = <<>>
             /\ outcomes = <<>>
             /\ response = [status |-> 422, output |-> <<>>]

\* C19 witness: a run with logfire configured that logged the span, the
\* failure and the success, and ended as the run without logfire does.
C19_Witness ==
    /\ variant = "main" /\ pc = "Done" /\ WellFormed
    /\ logfire_enabled
    /\ telemetry = <<"span primary_llm_attempt", "info Primary LLM (OpenAI) succeeded">>
    /\ Len(outcomes) = 1
    /\ trace = ExpectedTrace(Configured, outcomes)
    /\ response.output = outcomes[1].output

\* C20: every answered request whose question reports the theft of the card
\* with the word "stole" (as the tests' "Someone stole my wallet with my
\* credit card!" does) gets risk >= 6, block_card true, a category of urgent
\* or critical and at least one risk signal, whichever evaluator served it.
C20_TheftReportEscalated ==
    Answered /\ WellFormed /\ Mentions(Asked, <<"s","t","o","l","e">>) =>
        /\ Answer.risk >= 6
        /\ Answer.block_card = TRUE
        /\ Answer.risk_category \in {"urgent", "critical"}
        /\ Answer.risk_signals # <<>>

Awaiting == pc \in {"PrimaryRun", "SecondaryRun", "AgentRun"}

RECURSIVE ExpectedOutputOf(_, _, _)
ExpectedOutputOf(whos, outs, b) ==
    IF whos = <<>> \/ outs = <<>>
    THEN mock_support_response(b.question.val, b.customer_name.val)
    ELSE IF Head(outs).ok
         THEN Head(outs).output[1]
         ELSE ExpectedOutputOf(Tail(whos), Tail(outs), b)

\* A finished request, given by its locals f, went the way its own body and
\* its own call outcomes determine.
OwnCourse(f) ==
    f.pc = "Done" =>
        IF f.body[1].question.tag = "ok" /\ f.body[1].customer_name.tag = "ok"
        THEN /\ f.trace = ExpectedTrace(Configured, f.outcomes)
             /\ f.response = [status |-> 200,
                              output |-> <<ExpectedOutputOf(Configured, f.outcomes,
                                                            f.body[1])>>]
        ELSE /\ f.trace = <<>>
             /\ f.response = [status |-> 422, output |-> <<>>]

\* C22: two /support requests of app/main.py in flight together are
\* independent: however the event loop interleaves them at their awaits, a
\* step of the running request leaves the locals of the suspended one as they
\* are, a change of request hands each its own locals back, every finished
\* request has the evaluator sequence and the response that its own body and
\* its own call outcomes determine, and no step changes the configuration set
\* at process start.
C22_RequestsIndependent ==
    /\ [](parked # <<>> => OwnCourse(frame) /\ OwnCourse(parked[1]))
    /\ [][parked # <<>> =>
            \/ parked' = parked
            \/ parked' = <<frame>> /\ frame' = parked[1]]_vars
    /\ [][config' = config]_vars

\* C22 witness: one request was answered by the keyword evaluator after both
\* of its LLM calls failed, while another one, with another body, is
\* suspended in its second LLM call.
C22_Witness ==
    /\ parked # <<>>
    /\ pc = "Done" /\ response.status = 200
    /\ Len(outcomes) = 2
    /\ LastEvent = Event("ok", "mock")
    /\ parked[1].pc = "SecondaryRun"
    /\ Len(parked[1].outcomes) = 1
    /\ parked[1].body # body

\* The customer_id and the include_pending of the request being served, as
\* its body and the defaults of Query give them.
AskedCustomerId ==
    IF body[1].customer_id.tag = "ok" THEN body[1].customer_id.val ELSE 123

AskedIncludePending ==
    IF body[1].include_pending.tag = "ok" THEN body[1].include_pending.val ELSE TRUE

\* C23: every call of the balance tool during an LLM evaluation asks
\* DatabaseConn with the customer_id and the include_pending of the query
\* being served and returns the balance as "$123.45" or "$100.00".
C23_ToolUsesQuery ==
    \A i \in 1..Len(db_calls) :
        db_calls[i].method = "customer_balance" =>
            /\ db_calls[i].id = AskedCustomerId
            /\ db_calls[i].include_pending = AskedIncludePending
            /\ db_calls[i].text \in {<<"$","1","2","3",".","4","5">>,
                                     <<"$","1","0","0",".","0","0">>}

\* C24: the DatabaseConn stub gives back the provided name unchanged and
\* the balance 123.45 (12345 hundredths) with pending and 100.00 without,
\* for every customer id.
C24_StubValues ==
    \A i \in 1..Len(db_calls) :
        /\ db_calls[i].id = AskedCustomerId
        /\ db_calls[i].method = "customer_name" =>
            /\ db_calls[i].name = body[1].customer_name.val
            /\ db_calls[i].text = body[1].customer_name.val
        /\ db_calls[i].method = "customer_balance" =>
            /\ db_calls[i].include_pending => db_calls[i].amount = 12345
            /\ ~db_calls[i].include_pending => db_calls[i].amount = 10000

\* C24 witness: customer 456 named Bob had the name resolved and the balance
\* read with pending transactions.
C24_Witness ==
    /\ Len(db_calls) = 2
    /\ db_calls[1] = DbCall("customer_name", 456, FALSE, <<"B","o","b">>, 0,
                            <<"B","o","b">>)
    /\ db_calls[2].method = "customer_balance"
    /\ db_calls[2].id = 456
    /\ db_calls[2].include_pending
    /\ db_calls[2].amount = 12345

\* C25: the risk_signals of the keyword evaluator are fixed by the rule that
\* fired and not by the keywords found: ["lost","stolen"] for the theft rule
\* (also when only "missing" matched), ["fraud","suspicious"] for the fraud
\* rule (also when only "unauthorized" matched), ["balance inquiry"] for the
\* balance rule and [] for the default rule.
C25_SignalsByRule ==
    MockServed =>
        /\ response.status = 200
        /\ Answer.risk_signals =
             CASE RuleOf(Asked) = "theft" -> <<"lost", "stolen">>
               [] RuleOf(Asked) = "fraud" -> <<"fraud", "suspicious">>
               [] RuleOf(Asked) = "balance" -> <<"balance inquiry">>
               [] OTHER -> <<>>
        /\ Mentions(Asked, <<"m","i","s","s","i","n","g">>) =>
             Answer.risk_signals = <<"lost", "stolen">>
        /\ Mentions(Asked, <<"u","n","a","u","t","h","o","r","i","z","e","d">>)
           /\ ~MentionsTheft(Asked) =>
             Answer.risk_signals = <<"fraud", "suspicious">>

\* C25 witness: the question is the one word "Missing" and the signals are
\* "lost" and "stolen".
C25_Witness ==
    /\ MockServed
    /\ Asked = <<"M","i","s","s","i","n","g">>
    /\ ~Mentions(Asked, <<"l","o","s","t">>)
    /\ ~Mentions(Asked, <<"s","t","o","l","e","n">>)
    /\ Answer.risk_signals = <<"lost", "stolen">>

\* C26: in every output of the keyword evaluator block_card is true exactly
\* when the category is urgent or critical, which is exactly when risk >= 8,
\* and false whenever the category is routine; and the output is one of four
\* combinations of risk, block_card, category and signals.
C26_BlockIffUrgent ==
    MockServed =>
        /\ response.status = 200
        /\ Answer.block_card <=> Answer.risk_category \in {"urgent", "critical"}
        /\ Answer.block_card <=> Answer.risk >= 8
        /\ Answer.risk_category = "routine" => ~Answer.block_card
        /\ <<Answer.risk, Answer.block_card, Answer.risk_category, Answer.risk_signals>>
             \in { <<9, TRUE, "critical", <<"lost", "stolen">> >>,
                   <<8, TRUE, "urgent", <<"fraud", "suspicious">> >>,
                   <<1, FALSE, "routine", <<"balance inquiry">> >>,
                   <<2, FALSE, "routine", <<>> >> }

\* C26 witness: the combination of the fraud rule, for the one word
\* "Suspicious".
C26_Witness ==
    /\ MockServed
    /\ Asked = <<"S","u","s","p","i","c","i","o","u","s">>
    /\ <<Answer.risk, Answer.block_card, Answer.risk_category, Answer.risk_signals>>
         = <<8, TRUE, "urgent", <<"fraud", "suspicious">> >>

\* A finished request, given by its locals f, that the keyword evaluator
\* answered.
ServedByMock(f) ==
    /\ f.pc = "Done"
    /\ f.response.status = 200
    /\ f.trace # <<>>
    /\ f.trace[Len(f.trace)] = Event("ok", "mock")

\* risk, block_card, risk_category and risk_signals of an assessment.
Verdict(o) == <<o.risk, o.block_card, o.risk_category, o.risk_signals>>

\* C27: the keyword evaluator is a function of question and customer_name
\* only: two requests it served with the same question and the same
\* customer_name get the same assessment, whatever their customer_id and
\* include_pending, and two with the same question get the same risk,
\* block_card, risk_category and risk_signals, whatever their customer_name.
C27_MockDependsOnQuestionAndName ==
    parked # <<>> /\ ServedByMock(frame) /\ ServedByMock(parked[1]) =>
        /\ body[1].question = parked[1].body[1].question
           /\ body[1].customer_name = parked[1].body[1].customer_name =>
             response = parked[1].response
        /\ body[1].question = parked[1].body[1].question =>
             Verdict(Answer) = Verdict(parked[1].response.output[1])

\* C27 witness: two requests about the same stolen card from Bob, one for
\* customer 456 without pending transactions and one with the defaults, both
\* answered by the keyword evaluator.
C27_Witness ==
    /\ parked # <<>> /\ ServedByMock(frame) /\ ServedByMock(parked[1])
    /\ Asked = <<"S","T","O","L","E","N">>
    /\ body[1].question = parked[1].body[1].question
    /\ body[1].customer_name = parked[1].body[1].customer_name
    /\ q[1].customer_id = 456 /\ parked[1].q[1].customer_id = 123
    /\ q[1].include_pending = FALSE /\ parked[1].q[1].include_pending = TRUE
    /\ response = parked[1].response

\* C28: the validation script exits 0 exactly when the environment check,
\* the OpenAI check, the Anthropic check and the support-endpoint check all
\* passed, and 1 otherwise; with a required variable missing (unset or
\* blank) it exits 1 and no API check has run; with the variables set, all
\* three API checks run, in order, whatever each of them came to.
C28_ExitCode ==
    LET v == validate[1]
        env_present == v.env.OPENAI_API_KEY = "set" /\ v.env.ANTHROPIC_API_KEY = "set"
    IN  v.pc = "exited" =>
            /\ v.exit \in {0, 1}
            /\ v.exit = 0 <=>
                /\ env_present
                /\ v.openai = "working"
                /\ v.anthropic = "working"
                /\ v.support = "working"
            /\ ~env_present =>
                /\ v.exit = 1
                /\ v.ran = <<"env">>
                /\ v.openai = "not_run" /\ v.anthropic = "not_run"
                /\ v.support = "not_run"
            /\ env_present => v.ran = <<"env", "openai", "anthropic", "support">>

\* C28 witness: the OpenAI check raised, the other two checks still ran and
\* passed, and the script exited 1.
C28_Witness ==
    /\ validate # <<>>
    /\ validate[1].pc = "exited"
    /\ validate[1].openai = "exception"
    /\ validate[1].anthropic = "working"
    /\ validate[1].support = "working"
    /\ validate[1].ran = <<"env", "openai", "anthropic", "support">>
    /\ validate[1].exit = 1

\* C29: request_attributes_mapper logs the question cut at 100 characters:
\* the preview is the question when it has at most 100 characters, and
\* otherwise its first 100 characters followed by "...", never more than 103
\* characters; the support.* attributes are there only for the path
\* "/support"; request.path is there for every path; and the validation
\* errors are copied when there are any.
C29_MapperPreview ==
    mapper # <<>> /\ mapper[1].custom_attrs # <<>> =>
        LET request == mapper[1].request
            attributes == mapper[1].attributes
            attrs == mapper[1].custom_attrs[1]
            has_question == attributes.values # <<>> /\ attributes.values[1].question # <<>>
            has_name == attributes.values # <<>> /\ attributes.values[1].customer_name # <<>>
        IN  /\ attrs.request_path = <<request.path>>
            /\ request.path # "/support" =>
                /\ attrs.support_customer_name = <<>>
                /\ attrs.support_question_preview = <<>>
            /\ request.path = "/support" /\ has_name =>
                attrs.support_customer_name = attributes.values[1].customer_name
            /\ request.path = "/support" /\ has_question =>
                LET question == attributes.values[1].question[1] IN
                /\ Len(attrs.support_question_preview) = 1
                /\ LET preview == attrs.support_question_preview[1] IN
                    /\ Len(preview) <= 103
                    /\ Len(question) <= 100 => preview = question
                    /\ Len(question) > 100 =>
                        /\ Len(preview) = 103
                        /\ \A i \in 1..100 : preview[i] = question[i]
                        /\ \A i \in 101..103 : preview[i] = "."
            /\ ~has_question => attrs.support_question_preview = <<>>
            /\ ~has_name => attrs.support_customer_name = <<>>
            /\ attributes.errors # <<>> /\ attributes.errors[1] # <<>> =>
                attrs.validation_errors = attributes.errors
            /\ attributes.errors = <<>> => attrs.validation_errors = <<>>

\* C29 witness: a question of 101 characters sent to /support is logged as
\* 103 characters that end in "...".
C29_Witness ==
    /\ mapper # <<>> /\ mapper[1].custom_attrs # <<>>
    /\ mapper[1].request.path = "/support"
    /\ mapper[1].attributes.values # <<>>
    /\ mapper[1].attributes.values[1].question # <<>>
    /\ Len(mapper[1].attributes.values[1].question[1]) = 101
    /\ Len(mapper[1].custom_attrs[1].support_question_preview[1]) = 103
    /\ mapper[1].custom_attrs[1].support_question_preview[1][103] = "."

====
